---------------------------- MODULE Spec2Model ----------------------------
(***************************************************************************)
(* A model of teekay111/data-extractor: the CSV filter loop                *)
(* (modules/csv_handler.py) and the PDF extraction workflow               *)
(* (modules/pdf_handler.py).                                               *)
(*                                                                         *)
(* Python values are modelled as records, so that values of different      *)
(* Python types can be compared:                                           *)
(*   a str            [str |-> <<characters>>]                             *)
(*   None             [none |-> TRUE]                                      *)
(*   an int           [int |-> n]                                          *)
(*   a RichAnswer     [answer |-> v, source_quote |-> q, page_number |-> p]*)
(*   a dict (a row)   a function from its keys (TLA+ strings) to values    *)
(*   a list           [list |-> <<elements>>]                              *)
(***************************************************************************)
EXTENDS Integers, Sequences, FiniteSets, TLC

VARIABLES
    \* expand_nc_rows_from_single: its arguments, its result, its position,
    \* the record as it was when the call was made
    single_entry, column_names, exp_filename, rows, epc, entry_before,
    \* flatten_data: its argument, its result, the result flattened again
    rich_data, flat_data, flat_again, flpc,
    \* analyze_document_with_gemini: its arguments, the uploaded file's state,
    \* the polls made, the response text, what was raised inside the try,
    \* the value returned, the st.error notices, its position
    an_filename, an_schema, expect_list, an_state, an_polls, an_text,
    an_raised, an_ret, an_notices, apc,
    \* filter_data_with_gemini: the table, the loop index, the local
    \* generated_code, the prompt of the next call, the value returned, the
    \* notices shown, the exception that left the function, the calls and
    \* executions made, what each attempt did, its position
    df, attempt, generated_code, current_prompt, f_ret, f_notices, f_escaped,
    f_calls, f_execs, f_log, fpc,
    \* handle_pdf_app, the extraction run: the uploaded documents, the
    \* checkbox, the loop index (from 1), the section at hand, the locals
    \* results, nc_results, tmp_path and s_data, the staging files on disk,
    \* the tables shown live, the session state, what each section
    \* extraction did, its position, the number of the run in the session,
    \* what the last completed run produced
    uploaded_files, scan_nc, doc_index, sec, results, nc_results, tmp_path,
    s_data, tmp_files, main_placeholder, nc_placeholders, session_state,
    nc_log, bpc, run_no, completed,
    \* handle_csv_app, the chat step: the session's working table, the
    \* classifier's response, the intent in use, the table before the turn,
    \* the notices and the answer of the turn, the filter calls made, its
    \* position
    chat_df, c_response, intent, c_before, c_notices, c_answer, c_filter_calls,
    cpc,
    \* show_source_verification: the record, the names of the current files,
    \* the pages of the record's document, the field picked in the radio,
    \* the notices, the annotations and pages handed to the viewer, the
    \* exception that left the view, its position
    row_data, current_files, pdf_pages, selected_field_key, v_notices, annotations,
    pages_to_render, v_escaped, vpc

expandVars == <<single_entry, column_names, exp_filename, rows, epc, entry_before>>
flattenVars == <<rich_data, flat_data, flat_again, flpc>>
analyzeVars ==
    <<an_filename, an_schema, expect_list, an_state, an_polls, an_text,
      an_raised, an_ret, an_notices, apc>>
filterVars ==
    <<df, attempt, generated_code, current_prompt, f_ret, f_notices, f_escaped,
      f_calls, f_execs, f_log, fpc>>
batchVars ==
    <<uploaded_files, scan_nc, doc_index, sec, results, nc_results, tmp_path,
      s_data, tmp_files, main_placeholder, nc_placeholders, session_state,
      nc_log, bpc, run_no, completed>>
chatVars ==
    <<chat_df, c_response, intent, c_before, c_notices, c_answer, c_filter_calls, cpc>>
verifyVars ==
    <<row_data, current_files, pdf_pages, selected_field_key, v_notices, annotations,
      pages_to_render, v_escaped, vpc>>
vars == <<expandVars, flattenVars, analyzeVars, filterVars, batchVars, chatVars, verifyVars>>

\* what the actions of one function leave alone
NotExpand == <<flattenVars, analyzeVars, filterVars, batchVars, chatVars, verifyVars>>
NotFlatten == <<expandVars, analyzeVars, filterVars, batchVars, chatVars, verifyVars>>
NotAnalyze == <<expandVars, flattenVars, filterVars, batchVars, chatVars, verifyVars>>
NotFilter == <<expandVars, flattenVars, analyzeVars, batchVars, chatVars, verifyVars>>
NotBatch == <<expandVars, flattenVars, analyzeVars, filterVars, chatVars, verifyVars>>
NotChat == <<expandVars, flattenVars, analyzeVars, batchVars, verifyVars>>
NotVerify == <<expandVars, flattenVars, analyzeVars, filterVars, batchVars, chatVars>>

---------------------------------------------------------------------------
(* Bounds of the model *)

\* the largest number of ';' / newline separated pieces in an answer string
MaxPieces == 3

\* the largest number of records in a list handed to flatten_data
MaxRecords == 2

\* the largest number of documents uploaded for one extraction run
MaxDocs == 2

\* the largest number of rows of the table handed to the filter
MaxRows == 2

\* the largest number of polls of an uploaded file that is still PROCESSING
\* (the loop of the code has no bound)
MaxPolls == 2

---------------------------------------------------------------------------
(* Strings: sequences of characters *)

Range(s) == {s[i] : i \in DOMAIN s}

Max(a, b) == IF a >= b THEN a ELSE b

\* the characters str.strip() removes that occur in the model
IsSpace(c) == c \in {" ", "\n"}

RECURSIVE LStrip(_)
LStrip(s) == IF s # <<>> /\ IsSpace(Head(s)) THEN LStrip(Tail(s)) ELSE s

RECURSIVE RStrip(_)
RStrip(s) ==
    IF s # <<>> /\ IsSpace(s[Len(s)]) THEN RStrip(SubSeq(s, 1, Len(s) - 1)) ELSE s

\* str.strip()
Strip(s) == RStrip(LStrip(s))

\* the separators of re.split(r";|\n", raw_val)
IsSeparator(c) == c \in {";", "\n"}

\* re.split(r";|\n", s): the pieces between separators, empty ones included
RECURSIVE ReSplit(_, _)
ReSplit(s, cur) ==
    IF s = <<>> THEN <<cur>>
    ELSE IF IsSeparator(Head(s)) THEN <<cur>> \o ReSplit(Tail(s), <<>>)
    ELSE ReSplit(Tail(s), Append(cur, Head(s)))

\* [seg.strip() for seg in pieces if seg.strip()]
RECURSIVE StripNonEmpty(_)
StripNonEmpty(pieces) ==
    IF pieces = <<>> THEN <<>>
    ELSE IF Strip(Head(pieces)) # <<>>
         THEN <<Strip(Head(pieces))>> \o StripNonEmpty(Tail(pieces))
         ELSE StripNonEmpty(Tail(pieces))

---------------------------------------------------------------------------
(* Python values *)

PyStr(s) == [str |-> s]
PyNone == [none |-> TRUE]
PyInt(n) == [int |-> n]
RichAnswer(a, q, p) == [answer |-> a, source_quote |-> q, page_number |-> p]
PyDict(row) == [dict |-> row]
PyList(elems) == [list |-> elems]

IsDict(v) == "dict" \in DOMAIN v
IsList(v) == "list" \in DOMAIN v
IsStr(v) == "str" \in DOMAIN v

\* isinstance(v, dict) and "answer" in v
IsRich(v) == "answer" \in DOMAIN v

\* str(x or ""): None and "" give "", a str gives itself
StrOrEmpty(v) == IF "str" \in DOMAIN v THEN v.str ELSE <<>>

\* the "Error" marker of a failed extraction
ERROR == <<"E", "r", "r", "o", "r">>

\* the key analyze_document_with_gemini tags every record with
FILENAME == "filename"

\* the empty dict {}
EmptyRecord == [k \in {} |-> PyNone]

NC_SPLIT_COLUMNS ==
    {"NC number", "Client name", "Indicator", "Grade", "Status", "Issue Date",
     "Closed date"}

---------------------------------------------------------------------------
(* filter_data_with_gemini *)

\* max_retries
max_retries == 2

\* a table (DataFrame), a column of it (Series): the cells of its rows
PyFrame(cells) == [frame |-> cells]
PySeries(cells) == [series |-> cells]

IsFrame(v) == "frame" \in DOMAIN v
IsSeries(v) == "series" \in DOMAIN v

\* pd.DataFrame()
EmptyFrame == PyFrame(<<>>)

\* a local that has not been assigned yet
Unbound == [unbound |-> TRUE]

\* current_prompt: base_prompt, or base_prompt with the failing snippet and
\* its error message appended
BasePrompt == [base |-> TRUE]
RetryPrompt(code, error_msg) == [base |-> TRUE, code |-> code, error |-> error_msg]

(* The code strings the model may return, each with what exec does with it
   on a table whose rows hold a Status. *)
Snippets ==
    {"", "filtered_df = df[", "x = df", "filtered_df = 5",
     "filtered_df = df['Status']", "filtered_df = df[df['Status'] == 'Open']",
     "filtered_df = list(df['Status'])", "filtered_df = df",
     "filtered_df = df['Nope']", "raise SystemExit"}

\* exec(generated_code, {}, local_vars): what is raised ("none", an
\* Exception, or a BaseException that is no Exception), and the value bound
\* to filtered_df, if any
ExecCode(code, table) ==
    LET Done(v) == [raises |-> "none", message |-> "", value |-> v]
        Raise(kind, msg) == [raises |-> kind, message |-> msg, value |-> Unbound]
    IN  CASE code = "" -> Done(Unbound)
          [] code = "x = df" -> Done(Unbound)
          [] code = "filtered_df = df[" -> Raise("Exception", "SyntaxError")
          [] code = "filtered_df = df['Nope']" -> Raise("Exception", "KeyError")
          [] code = "raise SystemExit" -> Raise("BaseException", "SystemExit")
          [] code = "filtered_df = 5" -> Done(PyInt(5))
          [] code = "filtered_df = df['Status']" -> Done(PySeries(table.frame))
          [] code = "filtered_df = list(df['Status'])" -> Done(PyList(table.frame))
          [] code = "filtered_df = df" -> Done(table)
          [] code = "filtered_df = df[df['Status'] == 'Open']" ->
                Done(PyFrame(SelectSeq(table.frame, LAMBDA r : r = "Open")))

\* lines 75-79: a Series becomes a frame, anything else goes through
\* pd.DataFrame(result), which raises on a scalar
CoerceToFrame(result) ==
    IF IsFrame(result) THEN [ok |-> TRUE, value |-> result]
    ELSE IF IsSeries(result) THEN [ok |-> TRUE, value |-> PyFrame(result.series)]
    ELSE IF IsList(result) THEN [ok |-> TRUE, value |-> PyFrame(result.list)]
    ELSE [ok |-> FALSE, value |-> Unbound]

\* response.text.strip().replace('```python', '').replace('```', '').strip()
CleanCode(text) == PyStr(text.code)

\* the texts a response may hold: a snippet, bare or in a ```python fence
CodeTexts == {[fenced |-> f, code |-> c] : f \in BOOLEAN, c \in Snippets}

\* a notice shown to the user: st.info, st.warning, st.error
Notice(level, n) == [level |-> level, attempt |-> n]

\* the except block and the end of the loop: the warning, then the retry
\* prompt built from generated_code (an UnboundLocalError when the first
\* call gave no code), then the next attempt, or the failure notice and the
\* empty result when none is left
HandleException(shown, error_msg, outcome) ==
    /\ f_log' = Append(f_log, [code |-> generated_code', outcome |-> outcome])
    /\ IF generated_code' = Unbound
       THEN /\ f_notices' = Append(shown, Notice("warning", attempt + 1))
            /\ f_escaped' = "UnboundLocalError"
            /\ fpc' = "raised"
            /\ UNCHANGED <<attempt, current_prompt, f_ret>>
       ELSE /\ current_prompt' = RetryPrompt(generated_code', error_msg)
            /\ f_escaped' = "none"
            /\ IF attempt < max_retries
               THEN /\ attempt' = attempt + 1
                    /\ f_notices' = Append(shown, Notice("warning", attempt + 1))
                    /\ fpc' = "generate"
                    /\ UNCHANGED f_ret
               ELSE /\ f_notices' = shown \o
                          <<Notice("warning", attempt + 1), Notice("error", attempt + 1)>>
                    /\ f_ret' = [table |-> EmptyFrame, code |-> PyNone]
                    /\ fpc' = "returned"
                    /\ UNCHANGED attempt

\* model.generate_content(current_prompt) and response.text: the provider
\* raises, or the cleaned text becomes generated_code
FilterGenerate ==
    /\ fpc = "generate"
    /\ f_calls' = f_calls + 1
    /\ \/ /\ generated_code' = generated_code
          /\ HandleException(f_notices, "provider error", "provider_error")
       \/ \E text \in CodeTexts :
             /\ generated_code' = CleanCode(text)
             /\ fpc' = "exec"
             /\ UNCHANGED <<attempt, current_prompt, f_ret, f_notices, f_escaped, f_log>>
    /\ UNCHANGED <<df, f_execs>>
    /\ UNCHANGED NotFilter

\* st.info, exec(generated_code, {}, local_vars), and the check of
\* filtered_df: the result is returned with the snippet, or an Exception goes
\* to the except block, or a BaseException leaves the function
FilterExec ==
    /\ fpc = "exec"
    /\ f_execs' = f_execs + 1
    /\ generated_code' = generated_code
    /\ LET run == ExecCode(generated_code.str, df)
           coerced == CoerceToFrame(run.value)
           shown == Append(f_notices, Notice("info", attempt + 1))
       IN  CASE run.raises = "BaseException" ->
                  /\ f_log' = Append(f_log, [code |-> generated_code, outcome |-> "exit"])
                  /\ f_notices' = shown
                  /\ f_escaped' = run.message
                  /\ fpc' = "raised"
                  /\ UNCHANGED <<attempt, current_prompt, f_ret>>
             [] run.raises = "Exception" ->
                  HandleException(shown, run.message, "exec_error")
             [] run.raises = "none" /\ run.value = Unbound ->
                  HandleException(shown, "Code did not generate 'filtered_df' variable.",
                                       "no_filtered_df")
             [] run.raises = "none" /\ run.value # Unbound /\ ~coerced.ok ->
                  HandleException(shown, "DataFrame constructor not properly called!",
                                       "not_a_table")
             [] run.raises = "none" /\ run.value # Unbound /\ coerced.ok ->
                  /\ f_log' = Append(f_log, [code |-> generated_code, outcome |-> "success"])
                  /\ f_notices' = shown
                  /\ f_ret' = [table |-> coerced.value, code |-> generated_code]
                  /\ fpc' = "returned"
                  /\ UNCHANGED <<attempt, current_prompt, f_escaped>>
    /\ UNCHANGED <<df, f_calls>>
    /\ UNCHANGED NotFilter

---------------------------------------------------------------------------
(* analyze_document_with_gemini *)

(* A response text is [fenced |-> whether it is wrapped in ``` marks,
   payload |-> what is between them]; a payload is empty, not JSON at all,
   or the text of a JSON value, held as the Python value json.loads gives. *)
EmptyPayload == [kind |-> "empty"]
GarbagePayload == [kind |-> "garbage"]
JsonPayload(v) == [kind |-> "json", data |-> v]

\* _clean_json_payload: the text stripped, its code-fence marks removed
clean_json_payload(raw_text) == raw_text.payload

\* json.loads(payload or ("[]" if expect_list else "{}")): the value, or
\* the JSONDecodeError raised
JsonLoads(payload, as_list) ==
    IF payload.kind = "empty"
    THEN [ok |-> TRUE, data |-> IF as_list THEN PyList(<<>>) ELSE PyDict(EmptyRecord)]
    ELSE IF payload.kind = "garbage" THEN [ok |-> FALSE, data |-> PyNone]
    ELSE [ok |-> TRUE, data |-> payload.data]

\* row['filename'] = filename
SetFilename(row, filename) ==
    [k \in DOMAIN row \cup {FILENAME} |->
        IF k = FILENAME THEN PyStr(filename) ELSE row[k]]

\* for row in data: row['filename'] = filename, on a list
TagAll(elems, filename) ==
    [i \in 1..Len(elems) |-> PyDict(SetFilename(elems[i].dict, filename))]

\* lines 139-144: the parsed data tagged with the filename, or the TypeError
\* raised on the way (a value that is not iterable, an element or a value
\* that takes no item assignment)
TagData(data, filename, as_list) ==
    IF as_list
    THEN LET d == IF IsDict(data) THEN PyList(<<data>>) ELSE data
         IN  IF IsList(d)
             THEN IF \A i \in 1..Len(d.list) : IsDict(d.list[i])
                  THEN [ok |-> TRUE, data |-> PyList(TagAll(d.list, filename))]
                  ELSE [ok |-> FALSE, data |-> PyNone]
             ELSE IF d = PyStr(<<>>) THEN [ok |-> TRUE, data |-> d]
             ELSE [ok |-> FALSE, data |-> PyNone]
    ELSE IF IsDict(data)
         THEN [ok |-> TRUE, data |-> PyDict(SetFilename(data.dict, filename))]
         ELSE [ok |-> FALSE, data |-> PyNone]

\* a slip: the filename written first and then overwritten by the markers
ErrRow_MarkersLast(schema, filename) ==
    [k \in Range(schema) \cup {FILENAME} |->
        IF k \in Range(schema) THEN PyStr(ERROR) ELSE PyStr(filename)]

\* err_row: "Error" for every key of schema_dict, then the filename
ErrRow(schema, filename) ==
    [k \in Range(schema) \cup {FILENAME} |->
        IF k = FILENAME THEN PyStr(filename) ELSE PyStr(ERROR)]

\* return [err_row] if expect_list else err_row
ErrResult(schema, filename, as_list) ==
    IF as_list THEN PyList(<<PyDict(ErrRow(schema, filename))>>)
    ELSE PyDict(ErrRow(schema, filename))

\* lines 137-149 on a response text: what is returned, and what was raised
\* inside the try ("none", "parse", "tag")
ParseAndTag(text, schema, filename, as_list) ==
    LET parsed == JsonLoads(clean_json_payload(text), as_list)
        tagged == TagData(parsed.data, filename, as_list)
    IN  IF ~parsed.ok
        THEN [raised |-> "parse", ret |-> ErrResult(schema, filename, as_list)]
        ELSE IF ~tagged.ok
        THEN [raised |-> "tag", ret |-> ErrResult(schema, filename, as_list)]
        ELSE [raised |-> "none", ret |-> tagged.data]

---------------------------------------------------------------------------
(* flatten_data *)

\* v["answer"] if isinstance(v, dict) and "answer" in v else v
FlatValue(v) == IF IsRich(v) THEN v.answer ELSE v

\* a slip: the filename tag lost in the projection
FlatRow_DropFilename(item) ==
    [k \in DOMAIN item \ {FILENAME} |-> FlatValue(item[k])]

FlatRow(item) == [k \in DOMAIN item |-> FlatValue(item[k])]

flatten_data(items) == [i \in 1..Len(items) |-> FlatRow(items[i])]

---------------------------------------------------------------------------
(* expand_nc_rows_from_single *)

\* single_entry.get(column, "")
EntryGet(entry, column) ==
    IF column \in DOMAIN entry THEN entry[column] ELSE PyStr(<<>>)

\* raw_val of a column: str(val_obj["answer"] or "") or str(val_obj or "")
RawVal(entry, column) ==
    LET val_obj == EntryGet(entry, column)
    IN  IF IsRich(val_obj) THEN StrOrEmpty(val_obj.answer) ELSE StrOrEmpty(val_obj)

\* rich_metadata[column]: the RichAnswer itself, or None
RichMetadata(entry, column) ==
    LET val_obj == EntryGet(entry, column)
    IN  IF IsRich(val_obj) THEN val_obj ELSE PyNone

\* the segments of a column before the empty list is replaced
SplitSegments(raw_val, column) ==
    IF column \in NC_SPLIT_COLUMNS
    THEN StripNonEmpty(ReSplit(raw_val, <<>>))
    ELSE <<Strip(raw_val)>>

\* a slip: the raw answer kept whole, neither split nor trimmed
Processed_KeepRaw(entry, column) == <<RawVal(entry, column)>>

\* processed[column]
Processed(entry, column) ==
    LET segments == SplitSegments(RawVal(entry, column), column)
    IN  IF segments = <<>> THEN << <<>> >> ELSE segments

\* a slip: the length of the last column read instead of the running maximum
MaxLenOver_LastColumn(entry, columns) ==
    IF columns = <<>> THEN 0 ELSE Len(Processed(entry, columns[Len(columns)]))

RECURSIVE MaxLenOver(_, _)
MaxLenOver(entry, columns) ==
    IF columns = <<>> THEN 0
    ELSE Max(Len(Processed(entry, Head(columns))), MaxLenOver(entry, Tail(columns)))

\* a slip: values[0] instead of values[-1] when the column has run out
AnswerVal_RepeatFirst(values, idx) ==
    IF idx < Len(values) THEN values[idx + 1] ELSE values[1]

\* values[idx] if idx < len(values) else values[-1]   (idx counts from 0)
AnswerVal(values, idx) ==
    IF idx < Len(values) THEN values[idx + 1] ELSE values[Len(values)]

\* a slip: the provenance dropped, the plain segment written for every column
ExpandCell_PlainSegment(entry, column, idx) ==
    PyStr(AnswerVal(Processed(entry, column), idx))

\* row[column]: a copy of the RichAnswer with its answer replaced, or the
\* plain segment
ExpandCell(entry, column, idx) ==
    LET answer_val == AnswerVal(Processed(entry, column), idx)
        meta == RichMetadata(entry, column)
    IN  IF meta # PyNone
        THEN [meta EXCEPT !.answer = PyStr(answer_val)]
        ELSE PyStr(answer_val)

\* the row built for index idx: "filename" first, then every column in
\* order (a column named "filename" overwrites the tag)
ExpandRow(entry, columns, filename, idx) ==
    [k \in {FILENAME} \cup Range(columns) |->
        IF k \in Range(columns) THEN ExpandCell(entry, k, idx)
        ELSE PyStr(filename)]

\* single_entry once the call is over: new_obj = meta.copy() makes every
\* write of line 187 go to a copy, row and processed are fresh objects, so
\* nothing is written into the record passed in
EntryAfter(entry, columns) == entry

\* not single_entry
IsFalsy(entry) == entry = PyNone \/ DOMAIN entry = {}

expand_nc_rows_from_single(entry, columns, filename) ==
    IF IsFalsy(entry) THEN <<>>
    ELSE [i \in 1..Max(MaxLenOver(entry, columns), 1) |->
            ExpandRow(entry, columns, filename, i - 1)]

---------------------------------------------------------------------------
(* Inputs of the expansion *)

\* the pieces answers are built from: blank, plain, padded with whitespace
Pieces == {<<" ">>, <<"a">>, <<" ", "b", " ">>}

\* the separator after the i-th piece: both separators of the code occur
SepAfter(i) == IF i % 2 = 1 THEN ";" ELSE "\n"

RECURSIVE Join(_, _)
Join(ps, i) ==
    IF ps = <<>> THEN <<>>
    ELSE IF Len(ps) = 1 THEN Head(ps)
    ELSE Head(ps) \o <<SepAfter(i)>> \o Join(Tail(ps), i + 1)

PieceSeqs == UNION {[1..n -> Pieces] : n \in 0..MaxPieces}

RawStrings == {Join(ps, 1) : ps \in PieceSeqs}

Quotes == {<<"q">>}
CellValues ==
    {PyStr(s) : s \in RawStrings} \cup
    {RichAnswer(PyStr(s), q, 2) : s \in RawStrings, q \in Quotes} \cup
    {PyNone, RichAnswer(PyNone, <<"q">>, 1)}

\* the column lists of the model: list-like and free-text columns
Schemas ==
    {<<>>, <<"Grade">>, <<"Scope Definition">>, <<"Status", "Grade">>,
     <<"Grade", "Scope Definition">>}

Filenames == {<<"d", "1">>, <<"d", "2">>}

---------------------------------------------------------------------------
(* The expansion applied to every input of the model *)

EntriesOver(columns, filename) ==
    LET cellRows == UNION {[K -> CellValues] : K \in SUBSET Range(columns)}
    IN  {SetFilename(c, filename) : c \in cellRows} \cup {EmptyRecord}

\* the variables of a function that is not running
IdleExpand ==
    /\ single_entry = EmptyRecord
    /\ column_names = <<>>
    /\ exp_filename = <<>>
    /\ rows = <<>>
    /\ epc = "idle"
    /\ entry_before = EmptyRecord

IdleFlatten ==
    /\ rich_data = <<>>
    /\ flat_data = <<>>
    /\ flat_again = <<>>
    /\ flpc = "idle"

IdleAnalyze ==
    /\ an_filename = <<>>
    /\ an_schema = <<>>
    /\ expect_list = FALSE
    /\ an_state = "none"
    /\ an_polls = 0
    /\ an_text = PyNone
    /\ an_raised = "none"
    /\ an_ret = PyNone
    /\ an_notices = 0
    /\ apc = "idle"

IdleBatch ==
    /\ uploaded_files = <<>>
    /\ scan_nc = FALSE
    /\ doc_index = 0
    /\ sec = 0
    /\ results = <<>>
    /\ nc_results = <<>>
    /\ tmp_path = 0
    /\ s_data = PyNone
    /\ tmp_files = {}
    /\ main_placeholder = <<>>
    /\ nc_placeholders = <<>>
    /\ session_state = <<>>
    /\ nc_log = <<>>
    /\ bpc = "idle"
    /\ run_no = 0
    /\ completed = PyNone

IdleVerify ==
    /\ row_data = EmptyRecord
    /\ current_files = {}
    /\ pdf_pages = <<>>
    /\ selected_field_key = PyNone
    /\ v_notices = <<>>
    /\ annotations = <<>>
    /\ pages_to_render = <<>>
    /\ v_escaped = "none"
    /\ vpc = "idle"

IdleChat ==
    /\ chat_df = EmptyFrame
    /\ c_response = PyNone
    /\ intent = PyNone
    /\ c_before = EmptyFrame
    /\ c_notices = <<>>
    /\ c_answer = PyNone
    /\ c_filter_calls = 0
    /\ cpc = "idle"

IdleFilter ==
    /\ df = <<>>
    /\ attempt = 0
    /\ generated_code = Unbound
    /\ current_prompt = BasePrompt
    /\ f_ret = PyNone
    /\ f_notices = <<>>
    /\ f_escaped = "none"
    /\ f_calls = 0
    /\ f_execs = 0
    /\ f_log = <<>>
    /\ fpc = "idle"

InitExpand ==
    /\ IdleBatch
    /\ IdleFlatten
    /\ IdleAnalyze
    /\ IdleFilter
    /\ IdleChat
    /\ IdleVerify
    /\ column_names \in Schemas
    /\ exp_filename \in Filenames
    /\ single_entry \in EntriesOver(column_names, exp_filename)
    /\ rows = <<>>
    /\ epc = "input"
    /\ entry_before = single_entry

\* rows = expand_nc_rows_from_single(single_entry, column_names, filename)
Expand ==
    /\ epc = "input"
    /\ rows' = expand_nc_rows_from_single(single_entry, column_names, exp_filename)
    /\ single_entry' = EntryAfter(single_entry, column_names)
    /\ epc' = "expanded"
    /\ UNCHANGED <<column_names, exp_filename, entry_before>>
    /\ UNCHANGED NotExpand

NextExpand == Expand

SpecExpand == InitExpand /\ [][NextExpand]_vars

---------------------------------------------------------------------------
(* Claims about expand_nc_rows_from_single (under SpecExpand) *)

\* the trimmed non-empty segments of a column's answer, as the claims count
\* them: a list-like column is split on ';' and newline, a free-text column
\* is one segment (its whole trimmed text) unless it is blank
SegmentsOf(column) ==
    LET raw == RawVal(single_entry, column)
    IN  IF column \in NC_SPLIT_COLUMNS
        THEN StripNonEmpty(ReSplit(raw, <<>>))
        ELSE IF Strip(raw) = <<>> THEN <<>> ELSE <<Strip(raw)>>

ListLikeColumns == Range(column_names) \cap NC_SPLIT_COLUMNS

\* the largest segment count over the list-like columns, and at least 1
MaxSegmentCount ==
    LET counts == {Len(SegmentsOf(c)) : c \in ListLikeColumns} \cup {1}
    IN  CHOOSE m \in counts : \A n \in counts : n <= m

NoSegmentAnywhere == \A c \in Range(column_names) : SegmentsOf(c) = <<>>

AllBlank(row) ==
    \A c \in Range(column_names) : FlatValue(row[c]) = PyStr(<<>>)

\* C6 as stated: every record, the empty one included, gives
\* max(1, largest segment count over the list-like columns) rows, and a
\* record without any segment gives exactly one all-blank row.
C6_Original ==
    epc = "expanded" =>
        /\ Len(rows) = MaxSegmentCount
        /\ NoSegmentAnywhere => (Len(rows) = 1 /\ AllBlank(rows[1]))

\* C6 (amended): for every non-empty record the number of rows is the largest
\* segment count over the list-like columns, at least 1, and a record without
\* any segment gives exactly one all-blank row; the empty record gives no row.
C6_RowCount ==
    epc = "expanded" =>
        /\ ~IsFalsy(single_entry) =>
              /\ Len(rows) = MaxSegmentCount
              /\ NoSegmentAnywhere => (Len(rows) = 1 /\ AllBlank(rows[1]))
        /\ IsFalsy(single_entry) => rows = <<>>

C6_Witness ==
    /\ epc = "expanded"
    /\ column_names = <<"Status", "Grade">>
    /\ Len(SegmentsOf("Status")) = 2
    /\ Len(SegmentsOf("Grade")) = 3
    /\ Len(rows) = 3

\* the segment the repeat-last policy gives row i (from 1) of a column: its
\* i-th segment, else its last one, blank when it has none
RepeatLast(column, i) ==
    LET segs == SegmentsOf(column)
    IN  IF i <= Len(segs) THEN segs[i]
        ELSE IF segs = <<>> THEN <<>> ELSE segs[Len(segs)]

\* C7: row i of every column holds the column's segment i when it has one,
\* and otherwise the column's last segment.
C7_RepeatLast ==
    (epc = "expanded" /\ ~IsFalsy(single_entry)) =>
        \A i \in 1..Len(rows) : \A c \in Range(column_names) :
            FlatValue(rows[i][c]) = PyStr(RepeatLast(c, i))

\* column A with 3 segments, column B with 1: 3 rows that all carry B's value
C7_Witness ==
    /\ epc = "expanded"
    /\ column_names = <<"Status", "Grade">>
    /\ Len(SegmentsOf("Grade")) = 3
    /\ Len(SegmentsOf("Status")) = 1
    /\ Len(rows) = 3
    /\ \A i \in 1..3 : FlatValue(rows[i]["Status"]) = PyStr(SegmentsOf("Status")[1])
    /\ FlatValue(rows[1]["Grade"]) # FlatValue(rows[2]["Grade"])

AtMostOneSegmentEach == \A c \in ListLikeColumns : Len(SegmentsOf(c)) <= 1

AlreadyTrimmed ==
    /\ DOMAIN single_entry = Range(column_names) \cup {FILENAME}
    /\ FILENAME \notin Range(column_names)
    /\ single_entry[FILENAME] = PyStr(exp_filename)
    /\ \A c \in Range(column_names) :
          FlatValue(single_entry[c]) = PyStr(RepeatLast(c, 1))

---------------------------------------------------------------------------
(* flatten_data applied to every list of records of the model, and again to
   its own result *)

\* the values of a record's columns: plain, null, rich
FlattenValues ==
    {PyStr(<<"a">>), PyNone, RichAnswer(PyStr(<<"b">>), <<"q">>, 1),
     RichAnswer(PyNone, <<"q">>, 2)}

FlattenColumns == {"Grade", "Scope Definition"}

\* records as extraction produces them: some columns, tagged with a filename
FlattenRecords ==
    LET cellRows == UNION {[K -> FlattenValues] : K \in SUBSET FlattenColumns}
    IN  {SetFilename(c, f) : c \in cellRows, f \in Filenames}

InitFlatten ==
    /\ IdleBatch
    /\ IdleExpand
    /\ IdleAnalyze
    /\ IdleFilter
    /\ IdleChat
    /\ IdleVerify
    /\ rich_data \in UNION {[1..n -> FlattenRecords] : n \in 0..MaxRecords}
    /\ flat_data = <<>>
    /\ flat_again = <<>>
    /\ flpc = "input"

\* flat_data = flatten_data(rich_data)
Flatten ==
    /\ flpc = "input"
    /\ flat_data' = flatten_data(rich_data)
    /\ flpc' = "flat"
    /\ UNCHANGED <<rich_data, flat_again>>
    /\ UNCHANGED NotFlatten

\* flatten_data(flat_data): the projection applied to FlatRecords
FlattenAgain ==
    /\ flpc = "flat"
    /\ flat_again' = flatten_data(flat_data)
    /\ flpc' = "twice"
    /\ UNCHANGED <<rich_data, flat_data>>
    /\ UNCHANGED NotFlatten

NextFlatten == Flatten \/ FlattenAgain

SpecFlatten == InitFlatten /\ [][NextFlatten]_vars

\* a list of FlatRecord-shaped mappings: no value is a RichAnswer
IsFlatList(x) == \A i \in 1..Len(x) : \A k \in DOMAIN x[i] : ~IsRich(x[i][k])

\* C9: flattening is idempotent: flattening FlatRecords returns them
\* unchanged, so flatten_data(flatten_data(x)) = flatten_data(x), and the
\* result keeps the length, the record order and each record's key set.
C9_FlattenIdempotent ==
    /\ flpc \in {"flat", "twice"} =>
          /\ Len(flat_data) = Len(rich_data)
          /\ IsFlatList(flat_data)
          /\ \A i \in 1..Len(rich_data) :
                /\ DOMAIN flat_data[i] = DOMAIN rich_data[i]
                /\ flat_data[i][FILENAME] = rich_data[i][FILENAME]
          /\ IsFlatList(rich_data) => flat_data = rich_data
    /\ flpc = "twice" => flat_again = flat_data

C9_Witness ==
    /\ flpc = "twice"
    /\ Len(rich_data) = 2
    /\ rich_data[1][FILENAME] # rich_data[2][FILENAME]
    /\ \E k \in DOMAIN rich_data[1] : IsRich(rich_data[1][k])
    /\ flat_data # rich_data
    /\ flat_again = flat_data

---------------------------------------------------------------------------
(* analyze_document_with_gemini, step by step, on every input of the model *)

\* schema_dict, as the list of its keys (the questions only enter the prompt)
AnalyzeSchemas ==
    {<<>>, <<"Grade">>, <<"Status", "Grade">>, <<FILENAME>>, <<"Grade", FILENAME>>}

\* a record as the provider returns it for a schema: a RichAnswer per column
ProviderRow(schema, answer) ==
    [k \in Range(schema) |-> RichAnswer(PyStr(answer), <<"q">>, 1)]

\* the JSON values a response may hold: the expected shapes and the others
JsonValues(schema) ==
    LET r1 == PyDict(ProviderRow(schema, <<"a">>))
        r2 == PyDict(ProviderRow(schema, <<"a", ";", "b">>))
    IN  {r1, PyDict(EmptyRecord),
         PyList(<<>>), PyList(<<r1>>), PyList(<<r1, r2>>), PyList(<<r1, PyInt(1)>>),
         PyInt(1), PyNone, PyStr(<<>>), PyStr(<<"a">>)}

ResponseTexts(schema) ==
    {[fenced |-> f, payload |-> p] :
        f \in BOOLEAN,
        p \in {EmptyPayload, GarbagePayload} \cup {JsonPayload(v) : v \in JsonValues(schema)}}

InitAnalyze ==
    /\ IdleBatch
    /\ IdleExpand
    /\ IdleFlatten
    /\ IdleFilter
    /\ IdleChat
    /\ IdleVerify
    /\ an_filename \in Filenames
    /\ an_schema \in AnalyzeSchemas
    /\ expect_list \in BOOLEAN
    /\ an_state = "none"
    /\ an_polls = 0
    /\ an_text = PyNone
    /\ an_raised = "none"
    /\ an_ret = PyNone
    /\ an_notices = 0
    /\ apc = "upload"

\* the except block: st.error, then the error record is returned
AnalyzeFails(kind) ==
    /\ an_raised' = kind
    /\ an_notices' = an_notices + 1
    /\ an_ret' = ErrResult(an_schema, an_filename, expect_list)
    /\ apc' = "returned"

\* genai.upload_file: raises, or gives a file that is PROCESSING or ready
AnalyzeUpload ==
    /\ apc = "upload"
    /\ \/ /\ AnalyzeFails("upload")
          /\ UNCHANGED <<an_state>>
       \/ /\ an_state' \in {"PROCESSING", "ACTIVE", "FAILED"}
          /\ apc' = "poll"
          /\ UNCHANGED <<an_raised, an_ret, an_notices>>
    /\ UNCHANGED <<an_filename, an_schema, expect_list, an_polls, an_text>>
    /\ UNCHANGED NotAnalyze

\* one turn of the while loop: time.sleep(2), genai.get_file
AnalyzePoll ==
    /\ apc = "poll"
    /\ an_state = "PROCESSING"
    /\ an_polls' = an_polls + 1
    /\ \/ /\ AnalyzeFails("poll")
          /\ UNCHANGED <<an_state>>
       \/ /\ an_state' \in IF an_polls + 1 < MaxPolls
                           THEN {"PROCESSING", "ACTIVE", "FAILED"}
                           ELSE {"ACTIVE", "FAILED"}
          /\ UNCHANGED <<an_raised, an_ret, an_notices, apc>>
    /\ UNCHANGED <<an_filename, an_schema, expect_list, an_text>>
    /\ UNCHANGED NotAnalyze

\* model.generate_content raises, or its text is parsed, tagged and returned
AnalyzeGenerate ==
    /\ apc = "poll"
    /\ an_state # "PROCESSING"
    /\ \/ /\ AnalyzeFails("generate")
          /\ UNCHANGED <<an_text>>
       \/ \E text \in ResponseTexts(an_schema) :
             LET out == ParseAndTag(text, an_schema, an_filename, expect_list)
             IN  /\ an_text' = text
                 /\ IF out.raised = "none"
                    THEN /\ an_ret' = out.ret
                         /\ apc' = "returned"
                         /\ UNCHANGED <<an_raised, an_notices>>
                    ELSE AnalyzeFails(out.raised)
    /\ UNCHANGED <<an_filename, an_schema, expect_list, an_state, an_polls>>
    /\ UNCHANGED NotAnalyze

NextAnalyze == AnalyzeUpload \/ AnalyzePoll \/ AnalyzeGenerate

SpecAnalyze == InitAnalyze /\ [][NextAnalyze]_vars

\* the records a returned value holds
ReturnedRows(v) ==
    IF IsDict(v) THEN {v.dict}
    ELSE IF IsList(v) THEN {v.list[i].dict : i \in 1..Len(v.list)}
    ELSE {}

\* the response is of the shape the mode expects: a JSON object, or in array
\* mode an array of objects; an empty text reads as the empty object or array
ExpectedShape(text, as_list) ==
    \/ text.payload.kind = "empty"
    \/ /\ text.payload.kind = "json"
       /\ LET v == text.payload.data
          IN  \/ IsDict(v)
              \/ as_list /\ IsList(v) /\ \A i \in 1..Len(v.list) : IsDict(v.list[i])

\* the call failed: the provider raised, or the response is not of the
\* expected shape
CallFailed ==
    \/ an_raised \in {"upload", "poll", "generate"}
    \/ an_text # PyNone /\ ~ExpectedShape(an_text, expect_list)

AllTagged ==
    \A r \in ReturnedRows(an_ret) :
        FILENAME \in DOMAIN r /\ r[FILENAME] = PyStr(an_filename)

\* the value is one record (in a one-element list in array mode) that holds
\* "Error" for every column in cols
IsErrorRecord(v, cols, as_list) ==
    /\ IF as_list THEN IsList(v) /\ Len(v.list) = 1 ELSE IsDict(v)
    /\ \A r \in ReturnedRows(v) :
          /\ DOMAIN r = Range(an_schema) \cup {FILENAME}
          /\ \A c \in cols : r[c] = PyStr(ERROR)

\* C3 as stated: the function never raises; on a provider error or a response
\* that is not of the expected JSON shape it returns the record that holds
\* "Error" for every column of the schema; every record returned carries the
\* document's filename.
C3_Original ==
    /\ apc # "raised"
    /\ apc = "returned" =>
          /\ CallFailed => IsErrorRecord(an_ret, Range(an_schema), expect_list)
          /\ AllTagged

\* in array mode the JSON empty string raises nothing on the way
PassedThrough == expect_list /\ an_text # PyNone /\ an_text.payload = JsonPayload(PyStr(<<>>))

\* C3 (amended): the function never raises; on a provider error or a response
\* that is not of the expected JSON shape it returns the record that holds
\* "Error" for every column of the schema other than a column named filename,
\* except that in array mode a JSON empty string is returned as it is; every
\* record returned carries the document's filename; a response of the
\* expected shape is returned tagged, without a notice.
C3_ErrorRecord ==
    /\ apc # "raised"
    /\ apc = "returned" =>
          /\ (CallFailed /\ ~PassedThrough) =>
                /\ IsErrorRecord(an_ret, Range(an_schema) \ {FILENAME}, expect_list)
                /\ an_notices = 1
          /\ PassedThrough => an_ret = PyStr(<<>>) /\ an_notices = 0
          /\ ~CallFailed =>
                /\ an_notices = 0
                /\ ReturnedRows(an_ret) # {} \/ an_ret = PyList(<<>>)
          /\ AllTagged

C3_Witness ==
    /\ apc = "returned"
    /\ expect_list
    /\ an_schema = <<"Status", "Grade">>
    /\ an_text # PyNone /\ an_text.payload = GarbagePayload
    /\ an_ret = PyList(<<PyDict(ErrRow(an_schema, an_filename))>>)

---------------------------------------------------------------------------
(* filter_data_with_gemini on every table and every run of responses *)

Tables == {PyFrame(c) : c \in UNION {[1..n -> {"Open", "Closed"}] : n \in 1..MaxRows}}

InitFilter ==
    /\ IdleChat
    /\ IdleVerify
    /\ IdleBatch
    /\ IdleExpand
    /\ IdleFlatten
    /\ IdleAnalyze
    /\ df \in Tables
    /\ attempt = 0
    /\ generated_code = Unbound
    /\ current_prompt = BasePrompt
    /\ f_ret = PyNone
    /\ f_notices = <<>>
    /\ f_escaped = "none"
    /\ f_calls = 0
    /\ f_execs = 0
    /\ f_log = <<>>
    /\ fpc = "generate"

NextFilter == FilterGenerate \/ FilterExec

SpecFilter == InitFilter /\ [][NextFilter]_vars

\* the model returned a code string on every attempt made so far
EveryCallGaveCode ==
    \A i \in 1..Len(f_log) : f_log[i].outcome # "provider_error"

\* C1: at most 3 attempts in total (at most 3 model calls, at most 3
\* executions of generated code), and no error leaves the function whatever
\* code string the model returns on each attempt.
C1_NeverRaises ==
    /\ Len(f_log) <= 3
    /\ f_calls <= 3
    /\ f_execs <= 3
    /\ EveryCallGaveCode => fpc # "raised"

Failed(i) == f_log[i].outcome # "success"

\* C2: when every one of the 3 attempts fails the function returns the empty
\* table with a null code and shows the failure notice; when an attempt
\* succeeds the function returns at once with that attempt's snippet.
C2_ResultOfTheLoop ==
    /\ (Len(f_log) = max_retries + 1 /\ \A i \in 1..Len(f_log) : Failed(i)) =>
          /\ fpc = "returned"
          /\ f_ret = [table |-> EmptyFrame, code |-> PyNone]
          /\ \E n \in 1..Len(f_notices) : f_notices[n].level = "error"
    /\ \A i \in 1..Len(f_log) : ~Failed(i) =>
          /\ i = Len(f_log)
          /\ fpc = "returned"
          /\ f_ret.code = f_log[i].code
          /\ f_calls = i /\ f_execs <= i

---------------------------------------------------------------------------
(* handle_pdf_app: one extraction run over the uploaded documents *)

\* the keys of NC_SECTIONS, in order
NC_SECTIONS == <<"audit_nc", "previous_nc">>

\* schema_dict of the run, and the schema of every section, as key lists
MainSchema == <<"Report", "Country">>
SectionSchema == <<"Status", "Grade", "Scope Definition">>

\* what the provider does on one call: it fails, or it answers with a text
ProviderFailure == [failure |-> TRUE]
Answer(v) == [fenced |-> FALSE, payload |-> JsonPayload(v)]

\* analyze_document_with_gemini as one call: the value returned, and what
\* was raised inside its try
AnalyzeDocument(filename, schema, outcome, as_list) ==
    IF outcome = ProviderFailure
    THEN [raised |-> "provider", ret |-> ErrResult(schema, filename, as_list)]
    ELSE ParseAndTag(outcome, schema, filename, as_list)

\* the outcomes of the calls of the run: a failure, a record, an empty
\* response, a filled array, a merged record whose answers hold two segments
MainOutcomes == {ProviderFailure, Answer(PyDict(ProviderRow(MainSchema, <<"a">>)))}

ArrayOutcomes ==
    {ProviderFailure, [fenced |-> FALSE, payload |-> EmptyPayload],
     Answer(PyList(<<PyDict(ProviderRow(SectionSchema, <<"a">>)),
                     PyDict(ProviderRow(SectionSchema, <<"b">>))>>))}

FallbackOutcomes ==
    {ProviderFailure, Answer(PyDict(ProviderRow(SectionSchema, <<"a", ";", " ", "b">>)))}

\* a slip: a failed extraction leaves no record behind
AppendResult_SkipErrors(list, res) ==
    IF \E k \in DOMAIN res.dict : res.dict[k] = PyStr(ERROR)
    THEN list ELSE Append(list, res.dict)

\* results.append(res)
AppendResult(list, res) == Append(list, res.dict)

\* a slip: the fallback taken when the array holds a single record
NeedsFallback_SingleRecord(data) == IsList(data) /\ Len(data.list) <= 1

\* not s_data
NeedsFallback(data) == data = PyList(<<>>) \/ data = PyStr(<<>>)

\* list.extend(s_data): the records of the array, in order
Extend(list, data) ==
    list \o [n \in 1..(IF IsList(data) THEN Len(data.list) ELSE 0) |-> data.list[n].dict]

\* finally: os.remove(tmp_path), on the way out of a try that raised
RemoveOnRaise(files, path) == files \ {path}

\* a slip: the live table redrawn from the latest record alone
LiveTable_LatestOnly(list) ==
    IF list = <<>> THEN <<>> ELSE flatten_data(<<list[Len(list)]>>)

\* pd.DataFrame(flatten_data(...)): the rows of a table shown live
LiveTable(list) == flatten_data(list)

\* the uploads of a run: the i-th document is named after its position
UploadName(i) == <<"d">> \o [n \in 1..i |-> "i"]

SectionKey == NC_SECTIONS[sec]
DocName == uploaded_files[doc_index]

InitBatch ==
    /\ IdleExpand
    /\ IdleFlatten
    /\ IdleAnalyze
    /\ IdleFilter
    /\ IdleChat
    /\ IdleVerify
    /\ uploaded_files \in {[i \in 1..n |-> UploadName(i)] : n \in 1..MaxDocs}
    /\ scan_nc \in BOOLEAN
    /\ doc_index = 1
    /\ sec = 0
    /\ results = <<>>
    /\ nc_results = [k \in Range(NC_SECTIONS) |-> <<>>]
    /\ tmp_path = 0
    /\ s_data = PyNone
    /\ tmp_files = {}
    /\ main_placeholder = <<>>
    /\ nc_placeholders = [k \in Range(NC_SECTIONS) |-> <<>>]
    /\ session_state = EmptyRecord
    /\ nc_log = <<>>
    /\ bpc = "stage"
    /\ run_no = 1
    /\ completed = PyNone

\* tmp.name: a path no file has yet
FreshPath(files) == CHOOSE p \in 1..(Cardinality(files) + 1) : p \notin files

\* tempfile.NamedTemporaryFile(delete=False): the document's bytes staged
\* under a fresh path
StageFile ==
    /\ bpc = "stage"
    /\ tmp_path' = FreshPath(tmp_files)
    /\ tmp_files' = tmp_files \cup {FreshPath(tmp_files)}
    /\ bpc' = "main"
    /\ UNCHANGED <<uploaded_files, scan_nc, doc_index, sec, results, nc_results,
                   s_data, main_placeholder, nc_placeholders, session_state, nc_log>>
    /\ UNCHANGED <<run_no, completed>>
    /\ UNCHANGED NotBatch

\* tmp.write(pdf_file.getvalue()) raises (the disk is full, the upload is
\* gone): the file exists already, and the exception leaves the handler
\* from outside the try
StageWriteFails ==
    /\ bpc = "stage"
    /\ tmp_files' = tmp_files \cup {FreshPath(tmp_files)}
    /\ bpc' = "aborted"
    /\ UNCHANGED <<uploaded_files, scan_nc, doc_index, sec, results, nc_results,
                   tmp_path, s_data, main_placeholder, nc_placeholders, session_state,
                   nc_log>>
    /\ UNCHANGED <<run_no, completed>>
    /\ UNCHANGED NotBatch

\* the main extraction of the document: its record is appended
ExtractMain ==
    /\ bpc = "main"
    /\ \E outcome \in MainOutcomes :
          LET res == AnalyzeDocument(DocName, MainSchema, outcome, FALSE).ret
          IN  results' = AppendResult(results, res)
    /\ IF scan_nc THEN sec' = 1 /\ bpc' = "array" ELSE sec' = 0 /\ bpc' = "update"
    /\ UNCHANGED <<uploaded_files, scan_nc, doc_index, nc_results, tmp_path, s_data,
                   tmp_files, main_placeholder, nc_placeholders, session_state, nc_log>>
    /\ UNCHANGED <<run_no, completed>>
    /\ UNCHANGED NotBatch

\* lines 291-295 and the step of the section loop: the rows join the
\* section's accumulator, its live table is redrawn, the next section (or
\* the main table) is next
AddSectionRows(calls, array_ret, fallback_ret, added) ==
    /\ nc_results' = [nc_results EXCEPT ![SectionKey] = @ \o added]
    /\ nc_placeholders' =
          [nc_placeholders EXCEPT ![SectionKey] = LiveTable(nc_results'[SectionKey])]
    /\ nc_log' = Append(nc_log, [doc |-> doc_index, section |-> SectionKey,
                                 calls |-> calls, array |-> array_ret, fallback |-> fallback_ret,
                                 added |-> added])
    /\ s_data' = PyNone
    /\ IF sec < Len(NC_SECTIONS) THEN sec' = sec + 1 /\ bpc' = "array"
       ELSE sec' = 0 /\ bpc' = "update"

\* the array-mode extraction of one section: its records are added, or,
\* when there is none, the fallback extraction is next
ExtractSection ==
    /\ bpc = "array"
    /\ \E outcome \in ArrayOutcomes :
          LET data == AnalyzeDocument(DocName, SectionSchema, outcome, TRUE).ret
          IN  IF NeedsFallback(data)
              THEN /\ s_data' = data
                   /\ bpc' = "fallback"
                   /\ UNCHANGED <<sec, nc_results, nc_placeholders, nc_log>>
              ELSE AddSectionRows(<<"array">>, data, PyNone, Extend(<<>>, data))
    /\ UNCHANGED <<uploaded_files, scan_nc, doc_index, results, tmp_path, tmp_files,
                   main_placeholder, session_state>>
    /\ UNCHANGED <<run_no, completed>>
    /\ UNCHANGED NotBatch

\* the single-record fallback extraction of the section, expanded into rows
ExtractFallback ==
    /\ bpc = "fallback"
    /\ \E outcome \in FallbackOutcomes :
          LET fallback == AnalyzeDocument(DocName, SectionSchema, outcome, FALSE).ret
          IN  AddSectionRows(<<"array", "fallback">>, s_data, fallback,
                  expand_nc_rows_from_single(fallback.dict, SectionSchema, DocName))
    /\ UNCHANGED <<uploaded_files, scan_nc, doc_index, results, tmp_path, tmp_files,
                   main_placeholder, session_state>>
    /\ UNCHANGED <<run_no, completed>>
    /\ UNCHANGED NotBatch

\* lines 304-309: the results of the run are stored in the session
StoreResults ==
    [k \in DOMAIN session_state \cup {"rich_results_main", "schema_dict"} \cup
           (IF scan_nc THEN {"rich_results_audit_nc", "rich_results_previous_nc"} ELSE {}) |->
        CASE k = "rich_results_main" -> results
          [] k = "schema_dict" -> [n \in 1..Len(MainSchema) |-> PyStr(<<>>)]
          [] k = "rich_results_audit_nc" /\ scan_nc -> nc_results["audit_nc"]
          [] k = "rich_results_previous_nc" /\ scan_nc -> nc_results["previous_nc"]
          [] OTHER -> session_state[k]]

\* the main table is redrawn, the staging file is removed (finally), and
\* the loop goes to the next document or, after the last one, the results
\* are stored
UpdateMain ==
    /\ bpc = "update"
    /\ main_placeholder' = LiveTable(results)
    /\ tmp_files' = tmp_files \ {tmp_path}
    /\ IF doc_index < Len(uploaded_files)
       THEN /\ doc_index' = doc_index + 1
            /\ bpc' = "stage"
            /\ UNCHANGED <<session_state, completed>>
       ELSE /\ session_state' = StoreResults
            /\ completed' = [main |-> results, scan |-> scan_nc, nc |-> nc_results]
            /\ bpc' = "complete"
            /\ UNCHANGED doc_index
    /\ UNCHANGED <<uploaded_files, scan_nc, sec, results, nc_results, tmp_path, s_data,
                   nc_placeholders, nc_log, run_no>>
    /\ UNCHANGED NotBatch

\* an exception raised inside the try by anything but the extraction itself
\* (reading the secret, building or drawing a table): the finally block
\* runs and the exception leaves the handler
RaiseInTry ==
    /\ bpc \in {"main", "array", "fallback", "update"}
    /\ tmp_files' = RemoveOnRaise(tmp_files, tmp_path)
    /\ bpc' = "aborted"
    /\ UNCHANGED <<uploaded_files, scan_nc, doc_index, sec, results, nc_results,
                   tmp_path, s_data, main_placeholder, nc_placeholders, session_state,
                   nc_log>>
    /\ UNCHANGED <<run_no, completed>>
    /\ UNCHANGED NotBatch

Next == StageFile \/ StageWriteFails \/ ExtractMain \/ ExtractSection \/ ExtractFallback \/ UpdateMain
        \/ RaiseInTry

Init == InitBatch

Spec == Init /\ [][Next]_vars

\* the record of a document whose extraction failed
IsFailedRecord(r) == \A k \in Range(MainSchema) : r[k] = PyStr(ERROR)

\* C4: in a batch over d1..dn a failed extraction never stops the loop: the
\* main result list grows by one record per document, the i-th record is
\* tagged with the name of the i-th upload, and when the batch ends the list
\* holds exactly n records, whichever extractions failed.
C4_OneRecordPerDocument ==
    /\ \A i \in 1..Len(results) :
          /\ i <= Len(uploaded_files)
          /\ results[i][FILENAME] = PyStr(uploaded_files[i])
          /\ DOMAIN results[i] = Range(MainSchema) \cup {FILENAME}
    /\ bpc \in {"stage", "main"} => Len(results) = doc_index - 1
    /\ bpc \in {"array", "fallback", "update"} => Len(results) = doc_index
    /\ bpc = "complete" =>
          /\ Len(results) = Len(uploaded_files)
          /\ session_state["rich_results_main"] = results

\* a batch that ended after its first document failed and its second did not
C4_Witness ==
    /\ bpc = "complete"
    /\ Len(uploaded_files) >= 2
    /\ IsFailedRecord(results[1])
    /\ ~IsFailedRecord(results[2])

\* an array result with nothing in it
IsEmptyResult(v) == (IsList(v) /\ Len(v.list) = 0) \/ (IsStr(v) /\ Len(v.str) = 0)

\* the rows added for section k by the first n section extractions
RECURSIVE AddedFor(_, _)
AddedFor(k, n) ==
    IF n = 0 THEN <<>>
    ELSE AddedFor(k, n - 1) \o (IF nc_log[n].section = k THEN nc_log[n].added ELSE <<>>)

\* C5: with multi-record sections enabled every document and section starts
\* with the array-mode extraction; the fallback extraction is called exactly
\* when the array result is empty, once, and the rows added are then the
\* expansion of the fallback record; otherwise the array's elements are
\* added as they are and no fallback call is made.
C5_FallbackIffEmpty ==
    /\ ~scan_nc => nc_log = <<>>
    /\ \A n \in 1..Len(nc_log) :
          LET e == nc_log[n]
          IN  /\ e.doc = ((n - 1) \div Len(NC_SECTIONS)) + 1
              /\ e.section = NC_SECTIONS[((n - 1) % Len(NC_SECTIONS)) + 1]
              /\ e.calls[1] = "array"
              /\ IF IsEmptyResult(e.array)
                 THEN /\ e.calls = <<"array", "fallback">>
                      /\ e.added = expand_nc_rows_from_single(e.fallback.dict, SectionSchema,
                                                              uploaded_files[e.doc])
                 ELSE /\ e.calls = <<"array">>
                      /\ e.fallback = PyNone
                      /\ e.added = [i \in 1..Len(e.array.list) |-> e.array.list[i].dict]
    /\ bpc = "fallback" => IsEmptyResult(s_data)
    /\ \A k \in Range(NC_SECTIONS) : nc_results[k] = AddedFor(k, Len(nc_log))
    /\ (bpc = "complete" /\ scan_nc) => Len(nc_log) = Len(uploaded_files) * Len(NC_SECTIONS)

\* one section answered with records, another with nothing and then a merged
\* record that expands into two rows
C5_Witness ==
    /\ \E n \in 1..Len(nc_log) :
          /\ nc_log[n].calls = <<"array", "fallback">>
          /\ IsDict(nc_log[n].fallback)
          /\ Len(nc_log[n].added) = 2
    /\ \E n \in 1..Len(nc_log) :
          /\ nc_log[n].calls = <<"array">>
          /\ Len(nc_log[n].added) = 2

\* C10 as stated: every document's staging file is removed once its
\* processing ends: between documents and after the batch, however it ended,
\* no staging file exists, and never more than one.
C10_StagingRemoved ==
    /\ Cardinality(tmp_files) <= 1
    /\ bpc \in {"stage", "complete", "aborted"} => tmp_files = {}

\* the documents processed so far
Processed_Docs == IF bpc = "complete" THEN doc_index ELSE doc_index - 1

\* the rows added for section k from documents 1..i, by the first n section
\* extractions
RECURSIVE AddedUpTo(_, _, _)
AddedUpTo(k, i, n) ==
    IF n = 0 THEN <<>>
    ELSE AddedUpTo(k, i, n - 1) \o
         (IF nc_log[n].section = k /\ nc_log[n].doc <= i THEN nc_log[n].added ELSE <<>>)

\* C14: the partial tables are surfaced after every document: once document
\* i has been processed the main table shown is the flattening of exactly
\* the first i main records, and every enabled section's table shown is the
\* flattening of the rows accumulated for the section from documents 1..i.
C14_LiveTables ==
    /\ bpc \in {"stage", "complete"} =>
          /\ Len(results) = Processed_Docs
          /\ Len(main_placeholder) = Processed_Docs
          /\ main_placeholder = flatten_data(SubSeq(results, 1, Processed_Docs))
          /\ scan_nc => \A k \in Range(NC_SECTIONS) :
                nc_placeholders[k] =
                    flatten_data(AddedUpTo(k, Processed_Docs, Len(nc_log)))
    /\ bpc \in {"main", "array", "fallback", "update"} =>
          main_placeholder = flatten_data(SubSeq(results, 1, doc_index - 1))

\* between the first and the second document of a batch with sections: the
\* first document's record and section rows are on show
C14_Witness ==
    /\ bpc = "stage"
    /\ doc_index = 2
    /\ Len(uploaded_files) >= 2
    /\ scan_nc
    /\ Len(main_placeholder) = 1
    /\ Len(nc_placeholders["audit_nc"]) = 2
    /\ Len(nc_placeholders["previous_nc"]) = 1

---------------------------------------------------------------------------
(* handle_pdf_app over a session: one extraction run after another, the
   checkbox switched between them, and what the page shows of the stored
   results *)

\* the runs of a session, and the documents uploaded for each
MaxRuns == 2
SessionDocs == 1

\* the documents of run r: named apart from those of the other runs
SessionUploads(r, n) == [i \in 1..n |-> UploadName((r - 1) * SessionDocs + i)]

\* f"rich_results_{s['key']}"
ResKey(k) ==
    CASE k = "audit_nc" -> "rich_results_audit_nc"
      [] k = "previous_nc" -> "rich_results_previous_nc"

\* st.session_state.get(key): the list stored, nothing when there is none
Stored(key) == IF key \in DOMAIN session_state THEN session_state[key] ELSE <<>>

\* section 3 of the page: the table drawn from the stored main results
ShownMain == flatten_data(Stored("rich_results_main"))

\* the table drawn for a section: only with the checkbox on, from whatever
\* is stored under the section's key
ShownSection(k) == IF scan_nc THEN flatten_data(Stored(ResKey(k))) ELSE <<>>

InitSession ==
    /\ IdleExpand
    /\ IdleFlatten
    /\ IdleAnalyze
    /\ IdleFilter
    /\ IdleChat
    /\ IdleVerify
    /\ uploaded_files \in {SessionUploads(1, n) : n \in 1..SessionDocs}
    /\ scan_nc \in BOOLEAN
    /\ doc_index = 1
    /\ sec = 0
    /\ results = <<>>
    /\ nc_results = [k \in Range(NC_SECTIONS) |-> <<>>]
    /\ tmp_path = 0
    /\ s_data = PyNone
    /\ tmp_files = {}
    /\ main_placeholder = <<>>
    /\ nc_placeholders = [k \in Range(NC_SECTIONS) |-> <<>>]
    /\ session_state = EmptyRecord
    /\ nc_log = <<>>
    /\ bpc = "stage"
    /\ run_no = 1
    /\ completed = PyNone

\* the checkbox is switched while no run is going on; the script runs again
\* and draws the page from the session
ToggleScan ==
    /\ bpc \in {"complete", "aborted"}
    /\ scan_nc' = ~scan_nc
    /\ UNCHANGED <<uploaded_files, doc_index, sec, results, nc_results, tmp_path, s_data,
                   tmp_files, main_placeholder, nc_placeholders, session_state, nc_log,
                   bpc, run_no, completed>>
    /\ UNCHANGED NotBatch

\* the button is clicked again, on new uploads: the locals of the handler
\* start empty, the session keeps what it holds
StartExtraction ==
    /\ bpc \in {"complete", "aborted"}
    /\ run_no < MaxRuns
    /\ run_no' = run_no + 1
    /\ uploaded_files' \in {SessionUploads(run_no + 1, n) : n \in 1..SessionDocs}
    /\ doc_index' = 1
    /\ sec' = 0
    /\ results' = <<>>
    /\ nc_results' = [k \in Range(NC_SECTIONS) |-> <<>>]
    /\ s_data' = PyNone
    /\ main_placeholder' = <<>>
    /\ nc_placeholders' = [k \in Range(NC_SECTIONS) |-> <<>>]
    /\ nc_log' = <<>>
    /\ bpc' = "stage"
    /\ UNCHANGED <<scan_nc, tmp_path, tmp_files, session_state, completed>>
    /\ UNCHANGED NotBatch

NextSession == Next \/ ToggleScan \/ StartExtraction

SpecSession == InitSession /\ [][NextSession]_vars

\* C15 as stated: whatever runs were made, with the non-conformity option on
\* or off, the records stored for the main schema and for every section are
\* exactly those of the most recent completed run, and no record of an
\* earlier run is stored or shown next to that run's main results.
C15_LatestRunOnly ==
    completed # PyNone =>
        /\ Stored("rich_results_main") = completed.main
        /\ ShownMain = flatten_data(completed.main)
        /\ \A k \in Range(NC_SECTIONS) :
              /\ Stored(ResKey(k)) = IF completed.scan THEN completed.nc[k] ELSE <<>>
              /\ ShownSection(k) # <<>> =>
                    completed.scan /\ ShownSection(k) = flatten_data(completed.nc[k])

---------------------------------------------------------------------------
(* handle_csv_app, step 2: one chat turn after another over the session's
   working table; a filter request runs filter_data_with_gemini (the actions
   FilterGenerate and FilterExec above) *)

PyBool(b) == [bool |-> b]
IsBool(v) == "bool" \in DOMAIN v

\* the truth value Python gives a JSON value
Truthy(v) ==
    CASE IsBool(v) -> v.bool
      [] IsStr(v) -> v.str # <<>>
      [] "int" \in DOMAIN v -> v.int # 0
      [] IsList(v) -> v.list # <<>>
      [] IsDict(v) -> DOMAIN v.dict # {}
      [] OTHER -> FALSE

\* {"filter": False, "question": True}
DefaultIntent == PyDict([filter |-> PyBool(FALSE), question |-> PyBool(TRUE)])

\* the JSON values the classifier may answer with: the four boolean pairs,
\* a pair of strings, a pair with a key missing, no key at all, and values
\* that are no object
IntentValues ==
    {PyDict([filter |-> PyBool(a), question |-> PyBool(b)]) : a \in BOOLEAN, b \in BOOLEAN}
    \cup {PyDict([filter |-> PyStr(<<"f", "a", "l", "s", "e">>),
                  question |-> PyStr(<<"t", "r", "u", "e">>)]),
          PyDict([filter |-> PyBool(TRUE)]), PyDict(EmptyRecord),
          PyList(<<>>), PyNone, PyInt(1)}

\* what the classification call does: it fails, or it answers with a text
\* (empty, no JSON at all, or a JSON value), bare or in a ```json fence
IntentResponses ==
    {ProviderFailure} \cup
    {[fenced |-> f, payload |-> p] :
        f \in BOOLEAN,
        p \in {EmptyPayload, GarbagePayload} \cup {JsonPayload(v) : v \in IntentValues}}

\* lines 26-32: the parsed JSON value whatever it is, the default when the
\* call or json.loads raises
analyze_prompt_intent(response) ==
    IF response = ProviderFailure THEN DefaultIntent
    ELSE IF response.payload.kind # "json" THEN DefaultIntent
    ELSE response.payload.data

\* intent.get(key, False), on an intent that is a dict
IntentGet(value, key) ==
    IF key \in DOMAIN value.dict THEN value.dict[key] ELSE PyBool(FALSE)

\* new_filtered_data.empty
IsEmptyFrame(table) == table.frame = <<>>

\* a slip: the working table replaced by whatever the filter returned
ReplaceChatDf_Always(current, new) == new

\* lines 213-215: the working table after a filter call that returned
ReplaceChatDf(current, new) == IF ~IsEmptyFrame(new) THEN new ELSE current

InitChat ==
    /\ IdleVerify
    /\ IdleBatch
    /\ IdleExpand
    /\ IdleFlatten
    /\ IdleAnalyze
    /\ IdleFilter
    /\ chat_df \in Tables \cup {EmptyFrame}
    /\ c_response = PyNone
    /\ intent = PyNone
    /\ c_before = chat_df
    /\ c_notices = <<>>
    /\ c_answer = PyNone
    /\ c_filter_calls = 0
    /\ cpc = "prompt"

\* filter_data_with_gemini(current_df, prompt) is entered
EnterFilter ==
    /\ df' = chat_df
    /\ attempt' = 0
    /\ generated_code' = Unbound
    /\ current_prompt' = BasePrompt
    /\ f_ret' = PyNone
    /\ f_notices' = <<>>
    /\ f_escaped' = "none"
    /\ f_calls' = 0
    /\ f_execs' = 0
    /\ f_log' = <<>>
    /\ fpc' = "generate"

\* lines 193-209: the prompt is classified and intent.get('filter', False)
\* is read: an intent that is no dict raises AttributeError, caught by the
\* handler of line 230
ChatClassify ==
    /\ cpc = "prompt"
    /\ \E response \in IntentResponses :
          /\ c_response' = response
          /\ intent' = analyze_prompt_intent(response)
    /\ c_before' = chat_df
    /\ IF ~IsDict(intent')
       THEN /\ c_notices' = Append(c_notices, "Error reading CSV")
            /\ cpc' = "done"
            /\ UNCHANGED c_filter_calls
            /\ UNCHANGED filterVars
       ELSE IF Truthy(IntentGet(intent', "filter"))
       THEN /\ c_filter_calls' = c_filter_calls + 1
            /\ cpc' = "filtering"
            /\ EnterFilter
            /\ UNCHANGED c_notices
       ELSE /\ cpc' = "question"
            /\ UNCHANGED <<c_notices, c_filter_calls>>
            /\ UNCHANGED filterVars
    /\ UNCHANGED <<chat_df, c_answer>>
    /\ UNCHANGED NotChat

\* lines 211-222: the filter call is over: a table that is not empty
\* replaces the working table, an empty one gives the warning; an exception
\* out of the call is caught at line 230, or ends the script when it is no
\* Exception
ChatFiltered ==
    /\ cpc = "filtering"
    /\ fpc \in {"returned", "raised"}
    /\ IF fpc = "returned"
       THEN /\ chat_df' = ReplaceChatDf(chat_df, f_ret.table)
            /\ c_notices' = Append(c_notices,
                    IF IsEmptyFrame(f_ret.table) THEN "Filter returned no results."
                    ELSE "Filter Logic")
            /\ cpc' = "question"
       ELSE /\ c_notices' =
                  IF f_escaped = "SystemExit" THEN c_notices
                  ELSE Append(c_notices, "Error reading CSV")
            /\ cpc' = "done"
            /\ UNCHANGED chat_df
    /\ UNCHANGED <<c_response, intent, c_before, c_answer, c_filter_calls>>
    /\ UNCHANGED filterVars
    /\ UNCHANGED NotChat

\* lines 224-228: the question, when one was asked, is answered over
\* current_df
ChatQuestion ==
    /\ cpc = "question"
    /\ c_answer' = IF Truthy(IntentGet(intent, "question"))
                   THEN [over |-> chat_df] ELSE PyNone
    /\ cpc' = "done"
    /\ UNCHANGED <<chat_df, c_response, intent, c_before, c_notices, c_filter_calls>>
    /\ UNCHANGED filterVars
    /\ UNCHANGED NotChat

\* the next prompt is typed: the script runs again from the top
ChatNextTurn ==
    /\ cpc = "done"
    /\ c_response' = PyNone
    /\ intent' = PyNone
    /\ c_before' = chat_df
    /\ c_notices' = <<>>
    /\ c_answer' = PyNone
    /\ c_filter_calls' = 0
    /\ cpc' = "prompt"
    /\ df' = <<>>
    /\ attempt' = 0
    /\ generated_code' = Unbound
    /\ current_prompt' = BasePrompt
    /\ f_ret' = PyNone
    /\ f_notices' = <<>>
    /\ f_escaped' = "none"
    /\ f_calls' = 0
    /\ f_execs' = 0
    /\ f_log' = <<>>
    /\ fpc' = "idle"
    /\ UNCHANGED chat_df
    /\ UNCHANGED NotChat

NextChat == ChatClassify \/ FilterGenerate \/ FilterExec \/ ChatFiltered \/ ChatQuestion
            \/ ChatNextTurn

SpecChat == InitChat /\ [][NextChat]_vars

\* the classifier answered with the expected pair of booleans
ExpectedPair ==
    /\ c_response # ProviderFailure
    /\ c_response.payload.kind = "json"
    /\ IsDict(c_response.payload.data)
    /\ {"filter", "question"} \subseteq DOMAIN c_response.payload.data.dict
    /\ IsBool(c_response.payload.data.dict["filter"])
    /\ IsBool(c_response.payload.data.dict["question"])

\* C11 as stated: when the classification call fails or its response is not
\* the expected pair of booleans, the intent in use is {filter: false,
\* question: true}: no filter code is generated or executed, the working
\* table stays as it was, and the request is answered as a question.
C11_DefaultsToQuestion ==
    (cpc \notin {"idle", "prompt"} /\ ~ExpectedPair) =>
        /\ intent = DefaultIntent
        /\ c_filter_calls = 0
        /\ f_calls = 0 /\ f_execs = 0
        /\ chat_df = c_before
        /\ cpc = "done" => c_answer = [over |-> c_before]

\* a notice of the turn
Shown(text) == \E n \in 1..Len(c_notices) : c_notices[n] = text

\* C16: in the chat step the working table is replaced only by a filter
\* result that is not empty; when the filter returns an empty table the
\* working table stays as it was, the warning is shown, and a question asked
\* in the same turn is answered over the unchanged table.
C16_ReplacedOnlyByNonEmpty ==
    /\ cpc \in {"prompt", "filtering"} => chat_df = c_before
    /\ cpc \in {"question", "done"} =>
          IF fpc = "returned"
          THEN IF IsEmptyFrame(f_ret.table)
               THEN /\ chat_df = c_before
                    /\ Shown("Filter returned no results.")
                    /\ (cpc = "done" /\ Truthy(IntentGet(intent, "question"))) =>
                          c_answer = [over |-> c_before]
               ELSE /\ chat_df = f_ret.table
                    /\ ~Shown("Filter returned no results.")
          ELSE chat_df = c_before

\* a turn that asked for a filter and a question at once: the generated
\* filter matched no row, and the answer was given over the table as it was
C16_Witness ==
    /\ cpc = "done"
    /\ intent = PyDict([filter |-> PyBool(TRUE), question |-> PyBool(TRUE)])
    /\ fpc = "returned"
    /\ f_ret.code # PyNone
    /\ IsEmptyFrame(f_ret.table)
    /\ ~IsEmptyFrame(c_before)
    /\ chat_df = c_before
    /\ Shown("Filter returned no results.")
    /\ c_answer = [over |-> c_before]

---------------------------------------------------------------------------
(* show_source_verification: the view opened on one record, the user
   picking one of its fields *)

\* the length of a quote, the pages of a document
MaxQuote == 2
MaxPages == 2

\* the text of a page, and the quotes a field may cite: plain letters, the
\* dot, and a pattern that does not compile
PageTexts == {<<"a", "B">>, <<"B", "a">>}
QuoteTexts ==
    UNION {[1..n -> {"a", "b", "."}] : n \in 0..MaxQuote} \cup {<<"(">>}

\* the values of a field: a RichAnswer, a dict without provenance, a plain
\* string
FieldValues ==
    {RichAnswer(PyStr(<<"a">>), q, n) : q \in QuoteTexts, n \in 0..(MaxPages + 1)}
    \cup {[answer |-> PyStr(<<"a">>)], PyStr(<<"a">>)}

\* the records a row of a result table may hold: the filename alone, or one
\* column next to it (the column's name may be empty)
VerifyRows ==
    {SetFilename(EmptyRecord, f) : f \in Filenames}
    \cup {SetFilename([k \in {c} |-> v], f) :
             c \in {"Status", ""}, v \in FieldValues, f \in Filenames}

\* next((f for f in current_files if f.name == target_filename), None)
FindFile(files, target) == IF target.str \in files THEN target ELSE PyNone

\* [k for k in row_data.keys() if k != "filename"]
FieldKeys(row) == DOMAIN row \ {FILENAME}

\* st.radio("Select field:", field_keys): one of the options, None when
\* there is none
RadioChoices(options) ==
    IF options = {} THEN {PyNone} ELSE {[key |-> k] : k \in options}

\* if selected_field_key: None and "" are false
KeyTruthy(choice) == choice # PyNone /\ choice.key # ""

\* selected_field: page and quote of a dict (with the defaults of .get), or
\* page 1 and no quote
SelectedField(val) ==
    IF IsRich(val)
    THEN [page |-> IF "page_number" \in DOMAIN val THEN val.page_number ELSE 1,
          quote |-> IF "source_quote" \in DOMAIN val THEN val.source_quote ELSE <<>>]
    ELSE [page |-> 1, quote |-> <<>>]

Lower(c) == IF c = "A" THEN "a" ELSE IF c = "B" THEN "b" ELSE c

\* page.search(quote_text, case=False) takes its first argument as a
\* regular expression: a dot stands for any character, an open bracket
\* alone does not compile
Compiles(pattern) == \A i \in 1..Len(pattern) : pattern[i] # "("

MatchAt(pattern, text, pos) ==
    /\ pos + Len(pattern) - 1 <= Len(text)
    /\ \A i \in 1..Len(pattern) :
          pattern[i] = "." \/ Lower(pattern[i]) = Lower(text[pos + i - 1])

\* the matches from pos on, left to right, none overlapping another
RECURSIVE Search(_, _, _)
Search(pattern, text, pos) ==
    IF pos + Len(pattern) - 1 > Len(text) THEN <<>>
    ELSE IF MatchAt(pattern, text, pos)
    THEN <<pos>> \o Search(pattern, text, pos + Len(pattern))
    ELSE Search(pattern, text, pos + 1)

\* lines 224-232: one annotation per match on the cited page; none when
\* there is no quote, when the page is out of range, or when anything
\* raises inside the try
Annotate(page_num, quote_text, pages) ==
    IF quote_text = <<>> THEN <<>>
    ELSE IF ~(0 <= page_num - 1 /\ page_num - 1 < Len(pages)) THEN <<>>
    ELSE IF ~Compiles(quote_text) THEN <<>>
    ELSE LET words == Search(quote_text, pages[page_num], 1)
         IN  [n \in 1..Len(words) |->
                [page |-> page_num, at |-> words[n], width |-> Len(quote_text)]]

InitVerify ==
    /\ IdleBatch
    /\ IdleExpand
    /\ IdleFlatten
    /\ IdleAnalyze
    /\ IdleFilter
    /\ IdleChat
    /\ row_data \in VerifyRows
    /\ current_files \in SUBSET Filenames
    /\ pdf_pages \in UNION {[1..n -> PageTexts] : n \in 1..MaxPages}
    /\ selected_field_key = PyNone
    /\ v_notices = <<>>
    /\ annotations = <<>>
    /\ pages_to_render = <<>>
    /\ v_escaped = "none"
    /\ vpc = "open"

\* show_source_verification(row_data, current_files, title), with the field
\* the radio gives: the notice when the document is not there; else the
\* page and the annotations handed to the viewer, or the UnboundLocalError
\* of line 222 when no field was picked and selected_field was never bound
ShowVerification ==
    /\ vpc = "open"
    /\ vpc' = "shown"
    /\ IF FindFile(current_files, row_data[FILENAME]) = PyNone
       THEN /\ v_notices' = Append(v_notices, "Could not find PDF")
            /\ UNCHANGED <<selected_field_key, annotations, pages_to_render, v_escaped>>
       ELSE \E choice \in RadioChoices(FieldKeys(row_data)) :
               /\ selected_field_key' = choice
               /\ IF KeyTruthy(choice)
                  THEN LET selected_field == SelectedField(row_data[choice.key])
                       IN  /\ annotations' = Annotate(selected_field.page,
                                                      selected_field.quote, pdf_pages)
                           /\ pages_to_render' = <<selected_field.page>>
                           /\ UNCHANGED v_escaped
                  ELSE /\ v_escaped' = "UnboundLocalError"
                       /\ UNCHANGED <<annotations, pages_to_render>>
               /\ UNCHANGED v_notices
    /\ UNCHANGED <<row_data, current_files, pdf_pages>>
    /\ UNCHANGED NotVerify

NextVerify == ShowVerification

SpecVerify == InitVerify /\ [][NextVerify]_vars

\* the value of the field picked, its cited quote and page
PickedValue == row_data[selected_field_key.key]
CitedQuote ==
    IF IsRich(PickedValue) /\ "source_quote" \in DOMAIN PickedValue
    THEN PickedValue.source_quote ELSE <<>>
CitedPage ==
    IF IsRich(PickedValue) /\ "page_number" \in DOMAIN PickedValue
    THEN PickedValue.page_number ELSE 1

\* the quote occurs on the page as a substring, letter case aside
OccursOn(quote, text) ==
    \E pos \in 1..Len(text) :
        /\ pos + Len(quote) - 1 <= Len(text)
        /\ \A i \in 1..Len(quote) : Lower(quote[i]) = Lower(text[pos + i - 1])

NoProvenance == ~IsRich(PickedValue) \/ "source_quote" \notin DOMAIN PickedValue
PageOutOfRange == CitedPage \notin 1..Len(pdf_pages)
QuoteAbsent == ~PageOutOfRange /\ ~OccursOn(CitedQuote, pdf_pages[CitedPage])

\* C12 as stated: for any record and field picked, when the cited quote is
\* not on the cited page, the quote is empty, the page number is out of
\* range or the field has no provenance, the page is handed to the viewer
\* with no highlight rectangle and no error leaves the view; when the
\* record's document is not among the current files the "not found" notice
\* is shown instead and nothing is raised.
C12_NoHighlightNoError ==
    vpc = "shown" =>
        /\ row_data[FILENAME].str \notin current_files =>
              /\ v_notices = <<"Could not find PDF">>
              /\ v_escaped = "none"
              /\ pages_to_render = <<>>
        /\ (/\ row_data[FILENAME].str \in current_files
            /\ selected_field_key # PyNone
            /\ NoProvenance \/ CitedQuote = <<>> \/ PageOutOfRange \/ QuoteAbsent) =>
              /\ v_escaped = "none"
              /\ annotations = <<>>
              /\ pages_to_render = <<CitedPage>>

====
